---- MODULE Spec2Model ----
(***************************************************************************)
(* Model of src/src/App.jsx: the App component of the interactive world    *)
(* map (React state, the mount-time load effect, the country click, the    *)
(* submission form and handleUpload) together with the hosted backend it   *)
(* talks to (table "entries", storage buckets "images" and "audio").       *)
(*                                                                         *)
(* Text is a sequence of one-character strings, so that toLowerCase, the   *)
(* safeName replacement and split('.').pop() are computed character by     *)
(* character.  JS null is Null for objects and NullText for nullable text  *)
(* columns.  The code between two awaits runs as one step of the event     *)
(* loop.  A call of handleUpload is in flight while pc names it; the step  *)
(* in which it returns takes the backend's effect and result and runs the  *)
(* code after the await, up to the next await.  The select of the mount    *)
(* effect is served and received in two steps, since it is in flight next  *)
(* to the calls of handleUpload and its result can be older than theirs.   *)
(* handleUpload reads the state captured by the render it was created in,  *)
(* so the values it uses are snapshotted in `up` when it starts.           *)
(***************************************************************************)
EXTENDS Integers, Sequences, FiniteSets, TLC

\* Number of submits of one page session that pass the checks and start
\* uploading (each draws one identifier).
MaxUploads == 1

Null == [null |-> TRUE]
NullText == <<"null">>

-----------------------------------------------------------------------------
(* Text helpers *)

Digit(n) == <<"0", "1", "2", "3", "4", "5", "6", "7", "8", "9">>[n + 1]

UpperToLower ==
  [A |-> "a", B |-> "b", C |-> "c", D |-> "d", E |-> "e", F |-> "f", G |-> "g",
   H |-> "h", I |-> "i", J |-> "j", K |-> "k", L |-> "l", M |-> "m", N |-> "n",
   O |-> "o", P |-> "p", Q |-> "q", R |-> "r", S |-> "s", T |-> "t", U |-> "u",
   V |-> "v", W |-> "w", X |-> "x", Y |-> "y", Z |-> "z"]

toLowerCase(s) ==
  [i \in 1..Len(s) |-> IF s[i] \in DOMAIN UpperToLower THEN UpperToLower[s[i]] ELSE s[i]]

\* the characters the class [a-z0-9-_\.] accepts
SafeChars ==
  {UpperToLower[c] : c \in DOMAIN UpperToLower}
    \cup {Digit(n) : n \in 0..9} \cup {"-", "_", "."}

safeName(name) ==
  LET low == toLowerCase(name)
  IN  [i \in 1..Len(low) |-> IF low[i] \in SafeChars THEN low[i] ELSE "-"]

\* name.split('.').pop(): the text after the last '.', the whole name when
\* it has no '.'
SplitPop(name) ==
  LET dots == {i \in 1..Len(name) : name[i] = "."}
      last == IF dots = {} THEN 0 ELSE CHOOSE i \in dots : \A j \in dots : j <= i
  IN  SubSeq(name, last + 1, Len(name))

\* a || b on text
OrText(a, b) == IF a = <<>> THEN b ELSE a

ObjectName(base, file, fallback) == base \o <<".">> \o OrText(SplitPop(file.name), fallback)

-----------------------------------------------------------------------------
(* Inputs of a page session *)

\* the features of the map that are clicked, by property bag: one with both
\* country-code keys, one with neither
Geographies ==
  { [properties |-> [ISO_A2_EH |-> <<"D", "E">>, ISO_A2 |-> <<"-", "9", "9">>,
                     ADMIN |-> <<"G">>]],
    [properties |-> [SCALERANK |-> <<"1">>]] }

Titles == {<<>>, <<"S", "!">>}
Infos == {<<>>, <<"i">>}
ImageFiles == {[name |-> <<"a", ".", "p", "n", "g">>]}
AudioFiles == {[name |-> <<"s", ".", "m", "p", "3">>]}

\* messages the backend attaches to a failed call
ImgErrMsg == "image upload failed"
AudErrMsg == "audio upload failed"
DbErrMsg == "insert failed"
SelErrMsg == "select failed"
ExistsMsg == "The resource already exists"

ConfigMsg == "Supabase ist nicht konfiguriert."
SelectionMsg == "Bitte zuerst ein Land auswaehlen."
AssetMsg == "Bitte Bild (2:3) und MP3 auswaehlen."
FallbackMsg == "Upload fehlgeschlagen."

-----------------------------------------------------------------------------
(* Country resolver (the Geography render and its onClick) *)

Prop(geo, key) ==
  IF key \in DOMAIN geo.properties THEN geo.properties[key] ELSE <<>>

GeoCode(geo) == OrText(Prop(geo, "ISO_A2_EH"), OrText(Prop(geo, "ISO_A2"), <<>>))

GeoName(geo) ==
  OrText(Prop(geo, "NAME"),
    OrText(Prop(geo, "ADMIN"),
      OrText(Prop(geo, "NAME_LONG"), <<"U", "n", "b", "e", "n", "a", "n", "n", "t">>)))

-----------------------------------------------------------------------------
(* The backend: table entries, buckets images and audio *)

MaxCreatedAt(rows) ==
  IF rows = <<>> THEN 0
  ELSE CHOOSE t \in {rows[i].created_at : i \in 1..Len(rows)} :
         \A i \in 1..Len(rows) : rows[i].created_at <= t

RECURSIVE OrderByCreatedAtDesc(_)
OrderByCreatedAtDesc(rows) ==
  IF rows = <<>> THEN <<>>
  ELSE LET k == CHOOSE i \in 1..Len(rows) : rows[i].created_at = MaxCreatedAt(rows)
       IN  <<rows[k]>> \o
           OrderByCreatedAtDesc(SubSeq(rows, 1, k - 1) \o SubSeq(rows, k + 1, Len(rows)))

\* (variant: the select without its order clause)
SelectAll_Unordered(table) == table

\* from("entries").select("*").order("created_at", { ascending: false })
SelectAll(table) == OrderByCreatedAtDesc(table)

\* gen_random_uuid() of the table's id default
GenRandomUuid(table) == <<"r", Digit(Len(table) + 1)>>

\* insert(payload): columns the payload leaves out take the table's defaults
InsertInto(table, payload) ==
  Append(table,
    [id |-> IF "id" \in DOMAIN payload THEN payload.id ELSE GenRandomUuid(table),
     country_code |-> payload.country_code,
     title |-> payload.title,
     info |-> payload.info,
     image_url |-> payload.image_url,
     audio_url |-> payload.audio_url,
     created_at |-> MaxCreatedAt(table) + 1])

\* storage.from(bucket).getPublicUrl(path)
PublicUrl(url, bucket, path) == url \o <<"/public/", bucket, "/">> \o path

Ok(data) == [data |-> data, error |-> Null]
Failed(message) == [data |-> Null, error |-> [message |-> message]]

\* what storage.from(bucket).upload(name, ..., { upsert: false }) can do: the
\* bucket afterwards and the result handed to the page
UploadOutcomes(bucket, name, message) ==
  (IF name \in bucket THEN {} ELSE {[bucket |-> bucket \cup {name}, res |-> Ok([path |-> name])]})
    \cup {[bucket |-> bucket, res |-> Failed(IF name \in bucket THEN ExistsMsg ELSE message)]}

\* what from("entries").insert(payload) can do
InsertOutcomes(table, payload) ==
  {[table |-> InsertInto(table, payload), res |-> Ok(Null)],
   [table |-> table, res |-> Failed(DbErrMsg)]}

\* what the select can return
SelectOutcomes(table) == {Ok([rows |-> SelectAll(table)]), Failed(SelErrMsg)}

-----------------------------------------------------------------------------
(* State *)

VARIABLES
  SUPABASE_URL, SUPABASE_ANON_KEY,         \* build-time configuration
  entries, loading, activeCountry, showForm, uploading,
  title, info, imageFile, audioFile, error, \* useState of App
  countryEntries,                           \* the useMemo value
  loadPc, loadRes,                          \* load() of the mount effect
  pc, up,                                   \* the running handleUpload
  calls, uuids,                             \* calls issued by the latest submit;
                                            \* identifiers drawn so far
  db, images, audio                         \* backend

config == <<SUPABASE_URL, SUPABASE_ANON_KEY>>
ui == <<entries, loading, activeCountry, showForm, uploading, title, info,
        imageFile, audioFile, error, countryEntries>>
form == <<title, info, imageFile, audioFile>>
loader == <<loadPc, loadRes>>
pipeline == <<pc, up, calls, uuids>>
backend == <<db, images, audio>>
vars == <<config, ui, loader, pipeline, backend>>

\* (variant: the client created as soon as the address is present)
supabase_UrlOnly ==
  IF SUPABASE_URL # <<>>
  THEN [url |-> SUPABASE_URL, key |-> SUPABASE_ANON_KEY]
  ELSE Null

\* createClient(...) when both settings are present, else null
supabase ==
  IF SUPABASE_URL # <<>> /\ SUPABASE_ANON_KEY # <<>>
  THEN [url |-> SUPABASE_URL, key |-> SUPABASE_ANON_KEY]
  ELSE Null

\* data || []
OrEmpty(data) == IF data = Null THEN <<>> ELSE data.rows

\* (variant: find instead of filter, the first match only)
Filter_First(list, code) ==
  LET idx == {i \in 1..Len(list) : list[i].country_code = code}
  IN  IF idx = {} THEN <<>> ELSE <<list[CHOOSE i \in idx : \A j \in idx : i <= j]>>

RECURSIVE Filter(_, _)
Filter(list, code) ==
  IF list = <<>> THEN <<>>
  ELSE (IF Head(list).country_code = code THEN <<Head(list)>> ELSE <<>>)
         \o Filter(Tail(list), code)

\* the useMemo body, for the given entries and activeCountry
CountryEntriesOf(list, country) ==
  IF country = Null THEN <<>> ELSE Filter(list, country.code)

\* rows the table holds before the page is opened (heap order)
StoredRows(url) ==
  << [id |-> <<"r", "1">>, country_code |-> <<"D", "E">>, title |-> <<"o">>,
      info |-> NullText,
      image_url |-> PublicUrl(url, "images", <<"d", ".", "j", "p", "g">>),
      audio_url |-> PublicUrl(url, "audio", <<"d", ".", "m", "p", "3">>),
      created_at |-> 1],
     [id |-> <<"r", "2">>, country_code |-> <<"F", "R">>, title |-> NullText,
      info |-> <<"i">>,
      image_url |-> PublicUrl(url, "images", <<"f", ".", "j", "p", "g">>),
      audio_url |-> PublicUrl(url, "audio", <<"f", ".", "m", "p", "3">>),
      created_at |-> 2] >>

Init ==
  /\ SUPABASE_URL \in {<<>>, <<"h">>}
  /\ SUPABASE_ANON_KEY \in {<<>>, <<"k">>}
  /\ entries = <<>>
  /\ loading = TRUE
  /\ activeCountry = Null
  /\ showForm = FALSE
  /\ uploading = FALSE
  /\ title = <<>>
  /\ info = <<>>
  /\ imageFile = Null
  /\ audioFile = Null
  /\ error = ""
  /\ countryEntries = <<>>
  /\ loadPc = "mount"
  /\ loadRes = Null
  /\ pc = "idle"
  /\ up = Null
  /\ calls = <<>>
  /\ uuids = 0
  /\ db = StoredRows(<<"h">>)
  /\ images = {<<"f", ".", "j", "p", "g">>, <<"d", ".", "j", "p", "g">>}
  /\ audio = {<<"f", ".", "m", "p", "3">>, <<"d", ".", "m", "p", "3">>}

-----------------------------------------------------------------------------
(* The mount effect: load() *)

Mount ==
  /\ loadPc = "mount"
  /\ IF supabase = Null
     THEN /\ loading' = FALSE
          /\ loadPc' = "done"
     ELSE /\ loadPc' = "await"
          /\ UNCHANGED loading
  /\ UNCHANGED <<config, entries, activeCountry, showForm, uploading, form, error,
                 countryEntries, loadRes, pipeline, backend>>

LoadServe ==
  /\ loadPc = "await"
  /\ loadRes = Null
  /\ loadRes' \in SelectOutcomes(db)
  /\ UNCHANGED <<config, ui, loadPc, pipeline, backend>>

LoadReceive ==
  /\ loadPc = "await"
  /\ loadRes # Null
  /\ entries' = OrEmpty(loadRes.data)
  /\ loading' = FALSE
  /\ countryEntries' = CountryEntriesOf(entries', activeCountry)
  /\ loadPc' = "done"
  /\ loadRes' = Null
  /\ UNCHANGED <<config, activeCountry, showForm, uploading, form, error, pipeline, backend>>

-----------------------------------------------------------------------------
(* User controls *)

Rendered == loadPc # "mount"

\* (a click on the feature that is already active changes nothing)
ClickCountry(geo) ==
  /\ Rendered
  /\ activeCountry' = [code |-> GeoCode(geo), name |-> GeoName(geo)]
  /\ activeCountry' # activeCountry
  /\ countryEntries' = CountryEntriesOf(entries, activeCountry')
  /\ UNCHANGED <<config, entries, loading, showForm, uploading, form, error,
                 loader, pipeline, backend>>

\* (variant: the button never disabled)
AddButtonEnabled_Always == TRUE

\* disabled={!activeCountry} of the button that opens the form
AddButtonEnabled == activeCountry # Null

OpenForm ==
  /\ Rendered
  /\ AddButtonEnabled
  /\ ~showForm
  /\ showForm' = TRUE
  /\ UNCHANGED <<config, entries, loading, activeCountry, uploading, form, error,
                 countryEntries, loader, pipeline, backend>>

CloseForm ==
  /\ showForm
  /\ showForm' = FALSE
  /\ UNCHANGED <<config, entries, loading, activeCountry, uploading, form, error,
                 countryEntries, loader, pipeline, backend>>

SetTitle(t) ==
  /\ showForm
  /\ t # title
  /\ title' = t
  /\ UNCHANGED <<config, entries, loading, activeCountry, showForm, uploading, info,
                 imageFile, audioFile, error, countryEntries, loader, pipeline, backend>>

SetInfo(t) ==
  /\ showForm
  /\ t # info
  /\ info' = t
  /\ UNCHANGED <<config, entries, loading, activeCountry, showForm, uploading, title,
                 imageFile, audioFile, error, countryEntries, loader, pipeline, backend>>

SetImageFile(f) ==
  /\ showForm
  /\ f # imageFile
  /\ imageFile' = f
  /\ UNCHANGED <<config, entries, loading, activeCountry, showForm, uploading, title,
                 info, audioFile, error, countryEntries, loader, pipeline, backend>>

SetAudioFile(f) ==
  /\ showForm
  /\ f # audioFile
  /\ audioFile' = f
  /\ UNCHANGED <<config, entries, loading, activeCountry, showForm, uploading, title,
                 info, imageFile, error, countryEntries, loader, pipeline, backend>>

-----------------------------------------------------------------------------
(* handleUpload *)

\* (variant: the asset check made first)
Precheck_AssetsFirst(client, country, image, sound) ==
  IF image = Null \/ sound = Null THEN AssetMsg
  ELSE IF client = Null THEN ConfigMsg
  ELSE IF country = Null THEN SelectionMsg
  ELSE ""

\* the three checks before setUploading(true): the message of the first one
\* that fails, "" when all pass
Precheck(client, country, image, sound) ==
  IF client = Null THEN ConfigMsg
  ELSE IF country = Null THEN SelectionMsg
  ELSE IF image = Null \/ sound = Null THEN AssetMsg
  ELSE ""

\* uuidv4(): the n-th identifier drawn in this session
uuidv4(n) == <<Digit(n)>>

\* (variant: the identifier left out of the base name)
BaseName_NoId(country, t, id) ==
  safeName(country.code \o <<"-">> \o OrText(t, <<"u", "p", "l", "o", "a", "d">>))

\* safeName(`${activeCountry.code}-${title || "upload"}-${id}`)
BaseName(country, t, id) ==
  safeName(country.code \o <<"-">> \o OrText(t, <<"u", "p", "l", "o", "a", "d">>)
             \o <<"-">> \o id)

ImageName(u) == ObjectName(u.base, u.imageFile, <<"j", "p", "g">>)
AudioName(u) == ObjectName(u.base, u.audioFile, <<"m", "p", "3">>)

\* (variant: the country read from the current state, not the captured one)
InsertPayload_Live(u) ==
  [country_code |-> activeCountry.code,
   title |-> OrText(u.title, NullText),
   info |-> OrText(u.info, NullText),
   image_url |-> u.imgPublic,
   audio_url |-> u.audPublic]

\* the object passed to insert()
InsertPayload(u) ==
  [country_code |-> u.activeCountry.code,
   title |-> OrText(u.title, NullText),
   info |-> OrText(u.info, NullText),
   image_url |-> u.imgPublic,
   audio_url |-> u.audPublic]

\* (variant: the submit button never disabled)
SubmitEnabled_Always == TRUE

\* disabled={uploading} of the form's submit button
SubmitEnabled == ~uploading

\* the form's onSubmit
Submit ==
  /\ showForm
  /\ SubmitEnabled
  /\ LET msg == Precheck(supabase, activeCountry, imageFile, audioFile)
     IN  IF msg # ""
         THEN /\ error' = msg
              /\ calls' = <<>>
              /\ UNCHANGED <<uploading, pc, up, uuids>>
         ELSE /\ uuids < MaxUploads
              /\ uuids' = uuids + 1
              /\ error' = ""
              /\ uploading' = TRUE
              /\ up' = [activeCountry |-> activeCountry, title |-> title, info |-> info,
                        imageFile |-> imageFile, audioFile |-> audioFile,
                        id |-> uuidv4(uuids'),
                        base |-> BaseName(activeCountry, title, uuidv4(uuids')),
                        imgPublic |-> NullText, audPublic |-> NullText]
              /\ pc' = "img"
              /\ calls' = <<"upload image">>
  /\ UNCHANGED <<config, entries, loading, activeCountry, showForm, form,
                 countryEntries, loader, backend>>

\* (variant: the catch block shows the fixed text only)
Throw_FixedText(err) ==
  /\ error' = FallbackMsg
  /\ uploading' = FALSE
  /\ pc' = "idle"
  /\ UNCHANGED <<config, entries, loading, activeCountry, showForm, form,
                 countryEntries, loader, up, calls, uuids>>

\* (variant: the catch block resets and closes the form)
Throw_ResetForm(err) ==
  /\ error' = (IF err.message # "" THEN err.message ELSE FallbackMsg)
  /\ uploading' = FALSE
  /\ pc' = "idle"
  /\ title' = <<>>
  /\ info' = <<>>
  /\ imageFile' = Null
  /\ audioFile' = Null
  /\ showForm' = FALSE
  /\ UNCHANGED <<config, entries, loading, activeCountry,
                 countryEntries, loader, up, calls, uuids>>

\* (variant: the catch block clears the selected country)
Throw_ClearCountry(err) ==
  /\ error' = (IF err.message # "" THEN err.message ELSE FallbackMsg)
  /\ uploading' = FALSE
  /\ pc' = "idle"
  /\ activeCountry' = Null
  /\ countryEntries' = <<>>
  /\ UNCHANGED <<config, entries, loading, showForm, form,
                 loader, up, calls, uuids>>

\* (variant: no finally block)
Throw_NoFinally(err) ==
  /\ error' = (IF err.message # "" THEN err.message ELSE FallbackMsg)
  /\ pc' = "idle"
  /\ UNCHANGED <<config, entries, loading, activeCountry, showForm, uploading, form,
                 countryEntries, loader, up, calls, uuids>>

\* (variant: the catch block reloads the list from the table)
Throw_Reload(err) ==
  /\ error' = (IF err.message # "" THEN err.message ELSE FallbackMsg)
  /\ uploading' = FALSE
  /\ pc' = "idle"
  /\ entries' = SelectAll(db)
  /\ countryEntries' = CountryEntriesOf(entries', activeCountry)
  /\ UNCHANGED <<config, loading, activeCountry, showForm, form,
                 loader, up, calls, uuids>>

\* throw err: the catch block, then the finally block
Throw(err) ==
  /\ error' = (IF err.message # "" THEN err.message ELSE FallbackMsg)
  /\ uploading' = FALSE
  /\ pc' = "idle"
  /\ UNCHANGED <<config, entries, loading, activeCountry, showForm, form,
                 countryEntries, loader, up, calls, uuids>>

\* the image upload returns; on success the audio upload is issued
ImgReturn ==
  /\ pc = "img"
  /\ \E o \in UploadOutcomes(images, ImageName(up), ImgErrMsg) :
       /\ images' = o.bucket
       /\ IF o.res.error # Null
          THEN Throw(o.res.error)
          ELSE /\ up' = [up EXCEPT
                           !.imgPublic = PublicUrl(SUPABASE_URL, "images", o.res.data.path)]
               /\ pc' = "aud"
               /\ calls' = Append(calls, "upload audio")
               /\ UNCHANGED <<config, ui, loader, uuids>>
  /\ UNCHANGED <<db, audio>>

\* the audio upload returns; on success the insert is issued
AudReturn ==
  /\ pc = "aud"
  /\ \E o \in UploadOutcomes(audio, AudioName(up), AudErrMsg) :
       /\ audio' = o.bucket
       /\ IF o.res.error # Null
          THEN Throw(o.res.error)
          ELSE /\ up' = [up EXCEPT
                           !.audPublic = PublicUrl(SUPABASE_URL, "audio", o.res.data.path)]
               /\ pc' = "ins"
               /\ calls' = Append(calls, "insert")
               /\ UNCHANGED <<config, ui, loader, uuids>>
  /\ UNCHANGED <<db, images>>

\* the insert returns; on success the form fields are reset and the select is issued
InsReturn ==
  /\ pc = "ins"
  /\ \E o \in InsertOutcomes(db, InsertPayload(up)) :
       /\ db' = o.table
       /\ IF o.res.error # Null
          THEN Throw(o.res.error)
          ELSE /\ title' = <<>>
               /\ info' = <<>>
               /\ imageFile' = Null
               /\ audioFile' = Null
               /\ pc' = "sel"
               /\ calls' = Append(calls, "select")
               /\ UNCHANGED <<config, entries, loading, activeCountry, showForm, uploading,
                              error, countryEntries, loader, up, uuids>>
  /\ UNCHANGED <<images, audio>>

\* the select returns; then the finally block
RefReturn ==
  /\ pc = "sel"
  /\ \E r \in SelectOutcomes(db) :
       entries' = OrEmpty(r.data)
  /\ showForm' = FALSE
  /\ uploading' = FALSE
  /\ countryEntries' = CountryEntriesOf(entries', activeCountry)
  /\ pc' = "idle"
  /\ UNCHANGED <<config, loading, activeCountry, form, error, loader, up, calls,
                 uuids, backend>>

-----------------------------------------------------------------------------

Next ==
  \/ Mount
  \/ LoadServe
  \/ LoadReceive
  \/ \E geo \in Geographies : ClickCountry(geo)
  \/ OpenForm
  \/ CloseForm
  \/ \E t \in Titles : SetTitle(t)
  \/ \E t \in Infos : SetInfo(t)
  \/ \E f \in ImageFiles \cup {Null} : SetImageFile(f)
  \/ \E f \in AudioFiles \cup {Null} : SetAudioFile(f)
  \/ Submit
  \/ ImgReturn
  \/ AudReturn
  \/ InsReturn
  \/ RefReturn

Spec == Init /\ [][Next]_vars

-----------------------------------------------------------------------------
(* Properties *)

CallOrder == <<"upload image", "upload audio", "insert", "select">>

\* the latest submit has ended, and how
Ended == pc = "idle" /\ calls # <<>>
EndedOk == Ended /\ Len(calls) = 4
EndedAt(call) == Ended /\ Len(calls) < 4 /\ calls[Len(calls)] = call

\* a step of handleUpload that starts from no submit in flight: the form's
\* submit event
SubmitStep ==
  /\ pc = "idle"
  /\ <<error, calls, pc, uploading, up, uuids>>' # <<error, calls, pc, uploading, up, uuids>>

\* the first of the three preconditions the state violates, 0 when none
FirstViolated ==
  IF SUPABASE_URL = <<>> \/ SUPABASE_ANON_KEY = <<>> THEN 1
  ELSE IF activeCountry = Null THEN 2
  ELSE IF imageFile = Null \/ audioFile = Null THEN 3
  ELSE 0

MessageOf(k) == <<ConfigMsg, SelectionMsg, AssetMsg>>[k]

\* C1: a submit made while a precondition is violated shows the message of
\* the first violated one (configuration, then country, then files; the
\* three messages differ), issues no network call, leaves the backend as it
\* was and does not set the uploading flag.
C1_PreconditionsInOrder ==
  [][(SubmitStep /\ FirstViolated # 0) =>
       /\ error' = MessageOf(FirstViolated)
       /\ Cardinality({MessageOf(k) : k \in 1..3}) = 3
       /\ calls' = <<>>
       /\ pc' = "idle"
       /\ uploading' = FALSE /\ uploading = FALSE
       /\ UNCHANGED <<backend, loader, uuids>>]_vars

C1_Witness ==
  /\ supabase # Null
  /\ activeCountry # Null
  /\ imageFile # Null
  /\ audioFile = Null
  /\ error = AssetMsg
  /\ calls = <<>>
  /\ ~uploading

\* the error messages a failed call of the given kind can carry
MessagesOf(call) ==
  IF call = "upload image" THEN {ImgErrMsg, ExistsMsg}
  ELSE IF call = "upload audio" THEN {AudErrMsg, ExistsMsg}
  ELSE IF call = "insert" THEN {DbErrMsg}
  ELSE {}

RowOf(u, table) == {i \in 1..Len(table) : table[i].image_url = u.imgPublic}

\* C2: the calls of one submit are a prefix of image upload, audio upload,
\* insert, select; the call in flight is the last one issued; a call is
\* issued only when the one before it has succeeded (its effect is in the
\* backend); and a submit that ended at a failed upload or insert shows that
\* failure's message and has issued nothing after it.
C2_SequentialCalls ==
  /\ \E n \in 0..4 : calls = SubSeq(CallOrder, 1, n)
  /\ pc = "img" => calls = SubSeq(CallOrder, 1, 1)
  /\ pc = "aud" => calls = SubSeq(CallOrder, 1, 2)
  /\ pc = "ins" => calls = SubSeq(CallOrder, 1, 3)
  /\ pc = "sel" => calls = SubSeq(CallOrder, 1, 4)
  /\ Len(calls) >= 2 => ImageName(up) \in images
  /\ Len(calls) >= 3 => AudioName(up) \in audio
  /\ Len(calls) >= 4 => RowOf(up, db) # {}
  /\ \A call \in {"upload image", "upload audio", "insert"} :
       EndedAt(call) => error \in MessagesOf(call)
  /\ EndedAt("upload image") => ImageName(up) \notin images \/ error = ExistsMsg
  /\ EndedAt("upload audio") => AudioName(up) \notin audio \/ error = ExistsMsg
  /\ EndedAt("insert") => RowOf(up, db) = {}

C2_Witness == EndedAt("upload audio") /\ error = AudErrMsg /\ ImageName(up) \in images

\* C3: a submit whose insert failed after both uploads succeeded leaves the
\* list and the filtered view as they were and issues no select; no record of
\* it is in the table, the list or the view; both objects stay in storage,
\* and no step ever removes an object from a bucket.
C3_FailedInsertLeavesOrphans ==
  /\ [](EndedAt("insert") =>
          /\ ImageName(up) \in images
          /\ AudioName(up) \in audio
          /\ RowOf(up, db) = {}
          /\ RowOf(up, entries) = {}
          /\ RowOf(up, countryEntries) = {})
  /\ [][(pc = "ins" /\ pc' = "idle") =>
          /\ entries' = entries
          /\ countryEntries' = countryEntries
          /\ calls' = calls
          /\ db' = db]_vars
  /\ [][images \subseteq images' /\ audio \subseteq audio']_vars

C3_Witness ==
  /\ EndedAt("insert")
  /\ error = DbErrMsg
  /\ ImageName(up) \in images
  /\ AudioName(up) \in audio
  /\ activeCountry = up.activeCountry
  /\ ~loading

\* C4 (as claimed, granting that the submit's own select returned the rows):
\* once a submit whose uploads and insert succeeded has ended with the record
\* it created in the in-memory list, the list keeps holding that record,
\* whatever arrives afterwards.
C4_CreatedRecordStaysListed ==
  [][(EndedOk /\ RowOf(up, entries) # {} /\ EndedOk') => RowOf(up', entries') # {}]_vars

\* C5 (as claimed): every row of the table has a non-empty country_code.
C5_CountryCodeNeverEmpty == \A i \in 1..Len(db) : db[i].country_code # <<>>

EndsWith(s, suffix) ==
  /\ Len(s) >= Len(suffix)
  /\ SubSeq(s, Len(s) - Len(suffix) + 1, Len(s)) = suffix

\* the object name without its last '.' and what follows it
BaseOf(name) == SubSeq(name, 1, Len(name) - Len(SplitPop(name)) - 1)

DrawnIds == {uuidv4(k) : k \in 1..uuids}

\* the rows and objects this session has added
AddedRows == {i \in 1..Len(db) : i > Len(StoredRows(<<"h">>))}
AddedObjects(bucket) == {n \in bucket : \E id \in DrawnIds : EndsWith(BaseOf(n), <<"-">> \o id)}

\* C6 (as claimed): the identifier drawn at the start of a submit is in both
\* object names and is the id of the row the submit inserts.
C6_RowIdIsClientId ==
  Len(calls) >= 4 =>
    /\ EndsWith(BaseOf(ImageName(up)), <<"-">> \o up.id)
    /\ EndsWith(BaseOf(AudioName(up)), <<"-">> \o up.id)
    /\ \A i \in RowOf(up, db) : db[i].id = up.id

\* C6 (amended): the identifier is drawn in the step that starts the submit,
\* with no call issued before it, and differs from the ones drawn before;
\* both object names share a base that ends in it; every row the session
\* inserts carries the public URLs of two stored objects with one base ending
\* in a drawn identifier, while the row's id is not that identifier.
C6_ClientIdNamesObjects ==
  /\ [](uuids > 0 =>
          /\ up.id \in DrawnIds
          /\ EndsWith(up.base, <<"-">> \o up.id)
          /\ BaseOf(ImageName(up)) = up.base
          /\ BaseOf(AudioName(up)) = up.base)
  /\ [](\A i \in AddedRows :
          \E n \in AddedObjects(images), m \in AddedObjects(audio), id \in DrawnIds :
            /\ db[i].image_url = PublicUrl(SUPABASE_URL, "images", n)
            /\ db[i].audio_url = PublicUrl(SUPABASE_URL, "audio", m)
            /\ BaseOf(n) = BaseOf(m)
            /\ EndsWith(BaseOf(n), <<"-">> \o id)
            /\ db[i].id # id)
  /\ [][uuids' # uuids =>
          /\ pc = "idle"
          /\ calls' = <<"upload image">>
          /\ up'.id \notin DrawnIds
          /\ UNCHANGED backend]_vars

C6_Witness ==
  /\ EndedOk
  /\ \E i \in RowOf(up, db) : db[i].id # up.id /\ i \in AddedRows
  /\ ImageName(up) \in images
  /\ AudioName(up) \in audio

\* C7: the step in which a submit fails at the image upload, the audio upload
\* or the insert leaves showForm, title, info, imageFile and audioFile as they
\* were; a step of handleUpload changes one of them only when the insert has
\* succeeded: it clears the four fields when the insert returns and closes
\* the form when the select returns.
C7_FailureKeepsForm ==
  /\ [][(pc \in {"img", "aud", "ins"} /\ pc' = "idle") =>
          /\ showForm' = showForm
          /\ form' = form
          /\ error' \in MessagesOf(calls[Len(calls)])]_vars
  /\ [][(pc' # pc /\ <<showForm, form>>' # <<showForm, form>>) =>
          /\ Len(calls') = 4
          /\ RowOf(up, db') # {}]_vars
  /\ [][(pc = "ins" /\ pc' = "sel") =>
          /\ form' = <<<<>>, <<>>, Null, Null>>
          /\ showForm' = showForm]_vars
  /\ [][(pc = "sel" /\ pc' = "idle") => showForm' = FALSE /\ form' = form]_vars

C7_Witness ==
  /\ EndedAt("insert")
  /\ showForm
  /\ title # <<>>
  /\ info # <<>>
  /\ imageFile # Null
  /\ audioFile # Null

OrderedDesc(rows) ==
  \A i, j \in 1..Len(rows) : i < j => rows[i].created_at >= rows[j].created_at

SameRows(rows, table) ==
  /\ Len(rows) = Len(table)
  /\ \A i \in 1..Len(table) : \E j \in 1..Len(rows) : rows[j] = table[i]

\* C8: a successful select of the initial load returns the table's rows,
\* newest first; when the load's result arrives the list becomes those rows,
\* or the empty list if the result is an error; loading becomes false and the
\* error text of the form is left as it was.
C8_InitialLoad ==
  /\ [][(loadPc = "await" /\ loadRes = Null /\ loadRes' # Null /\ loadRes'.error = Null) =>
          /\ SameRows(loadRes'.data.rows, db)
          /\ OrderedDesc(loadRes'.data.rows)]_vars
  /\ [][(loadPc = "await" /\ loadPc' = "done") =>
          /\ loadRes # Null
          /\ IF loadRes.error = Null
             THEN entries' = loadRes.data.rows /\ OrderedDesc(entries')
             ELSE entries' = <<>>
          /\ loading' = FALSE
          /\ error' = error
          /\ UNCHANGED <<pipeline, backend>>]_vars
  /\ [](loading <=> loadPc # "done")

\* the load has ended on an error of the service: nothing else empties the
\* list while the table holds rows and no submit has been made
C8_Witness ==
  /\ supabase # Null
  /\ loadPc = "done"
  /\ ~loading
  /\ entries = <<>>
  /\ db # <<>>
  /\ uuids = 0
  /\ showForm
  /\ error = ""

\* C9: while the address or the key is absent, no call is in flight or has
\* been issued, the backend is as it was, the load has ended with loading
\* false and an empty list once the page has mounted, and the only error
\* text a submit leaves is the configuration message.
C9_NoNetworkUnconfigured ==
  /\ [](SUPABASE_URL = <<>> \/ SUPABASE_ANON_KEY = <<>> =>
          /\ pc = "idle"
          /\ calls = <<>>
          /\ uuids = 0
          /\ ~uploading
          /\ loadPc \in {"mount", "done"}
          /\ loadRes = Null
          /\ db = StoredRows(<<"h">>)
          /\ AddedObjects(images) = {} /\ AddedObjects(audio) = {}
          /\ loadPc = "done" => ~loading /\ entries = <<>>
          /\ error \in {"", ConfigMsg})
  /\ [][(SUPABASE_URL = <<>> \/ SUPABASE_ANON_KEY = <<>>) /\ SubmitStep =>
          error' = ConfigMsg]_vars

C9_Witness ==
  /\ SUPABASE_URL # <<>>
  /\ SUPABASE_ANON_KEY = <<>>
  /\ loadPc = "done"
  /\ activeCountry # Null
  /\ imageFile # Null
  /\ audioFile # Null
  /\ error = ConfigMsg

\* view holds exactly the elements of list with the given code, in list order
IsFilterOf(view, list, code) ==
  LET idx == {i \in 1..Len(list) : list[i].country_code = code}
  IN  /\ Len(view) = Cardinality(idx)
      /\ \A i \in idx : view[Cardinality({j \in idx : j <= i})] = list[i]

\* C10: the filtered view is the subsequence of the list with the active
\* country's code, in list order, and is empty while no country is selected.
C10_FilteredView ==
  IF activeCountry = Null
  THEN countryEntries = <<>>
  ELSE IsFilterOf(countryEntries, entries, activeCountry.code)

C10_Witness ==
  /\ Len(entries) = 3
  /\ activeCountry # Null
  /\ entries[1].country_code = activeCountry.code
  /\ entries[2].country_code # activeCountry.code
  /\ entries[3].country_code = activeCountry.code
  /\ countryEntries = <<entries[1], entries[3]>>

\* C11: the form is shown only while a country is selected, and no submit
\* leaves the selection-required message.
C11_FormNeedsCountry ==
  /\ showForm => activeCountry # Null
  /\ error # SelectionMsg

\* a submit has been made through the form and was rejected for its files
C11_Witness ==
  /\ showForm
  /\ activeCountry # Null
  /\ supabase # Null
  /\ error = AssetMsg
  /\ imageFile = Null

C14_CountryChangesOnlyByClick ==
  /\ [][activeCountry' # activeCountry =>
          /\ \E geo \in Geographies :
               activeCountry' = [code |-> GeoCode(geo), name |-> GeoName(geo)]
          /\ UNCHANGED <<config, entries, loading, showForm, uploading, form, error,
                         loader, pipeline, backend>>]_vars
  /\ [][activeCountry # Null => activeCountry' # Null]_vars

\* the load has ended, the form was closed and a submit has failed, with the
\* country of the submit still active
C14_Witness ==
  /\ loadPc = "done"
  /\ EndedAt("upload image")
  /\ ~showForm
  /\ activeCountry = up.activeCountry

StartsWith(s, prefix) ==
  /\ Len(s) >= Len(prefix)
  /\ SubSeq(s, 1, Len(prefix)) = prefix

\* C15: a submit keeps the country that was active when it started: both
\* object names begin with that country's code (made safe) and '-', and the
\* row it inserts carries that code, whatever is clicked or typed meanwhile.
C15_CountryOfSubmit ==
  /\ [](uuids > 0 =>
          /\ StartsWith(ImageName(up), safeName(up.activeCountry.code) \o <<"-">>)
          /\ StartsWith(AudioName(up), safeName(up.activeCountry.code) \o <<"-">>)
          /\ \A i \in RowOf(up, db) : db[i].country_code = up.activeCountry.code)
  /\ [][uuids' # uuids => up'.activeCountry = activeCountry]_vars
  /\ [][(uuids' = uuids /\ uuids > 0) => up'.activeCountry = up.activeCountry]_vars

\* a submit for one country has succeeded although another country was
\* clicked and the title was edited while it was in flight
C15_Witness ==
  /\ EndedOk
  /\ up.activeCountry.code = <<"D", "E">>
  /\ activeCountry.code # <<"D", "E">>
  /\ up.title # <<>>
  /\ \E i \in RowOf(up, db) : db[i].country_code = <<"D", "E">>
  /\ ImageName(up) \in images
  /\ AudioName(up) \in audio

-----------------------------------------------------------------------------
(* The upload pipeline on its own, from a filled-in form, over file names    *)
(* with an extension, without a '.', and ending in '.'                       *)

NamedImageFiles ==
  {[name |-> <<"a", ".", "p", "n", "g">>], [name |-> <<"p", "i", "c">>],
   [name |-> <<"a", ".">>]}
NamedAudioFiles ==
  {[name |-> <<"s", ".", "m", "p", "3">>], [name |-> <<"s", "n", "d">>],
   [name |-> <<"s", ".">>]}

\* the page after the load has ended, a country was clicked, the form was
\* opened and its fields were filled in
InitFilled ==
  /\ SUPABASE_URL = <<"h">>
  /\ SUPABASE_ANON_KEY = <<"k">>
  /\ db = StoredRows(<<"h">>)
  /\ images = {<<"f", ".", "j", "p", "g">>, <<"d", ".", "j", "p", "g">>}
  /\ audio = {<<"f", ".", "m", "p", "3">>, <<"d", ".", "m", "p", "3">>}
  /\ entries = SelectAll(db)
  /\ loading = FALSE
  /\ activeCountry \in {[code |-> GeoCode(geo), name |-> GeoName(geo)] : geo \in Geographies}
  /\ showForm = TRUE
  /\ uploading = FALSE
  /\ title \in Titles
  /\ info \in Infos
  /\ imageFile \in NamedImageFiles
  /\ audioFile \in NamedAudioFiles
  /\ error = ""
  /\ countryEntries = CountryEntriesOf(entries, activeCountry)
  /\ loadPc = "done"
  /\ loadRes = Null
  /\ pc = "idle"
  /\ up = Null
  /\ calls = <<>>
  /\ uuids = 0

NextUpload ==
  \/ Submit
  \/ ImgReturn
  \/ AudReturn
  \/ InsReturn
  \/ RefReturn

SpecUpload == InitFilled /\ [][NextUpload]_vars

\* the extension as the claim has it: the text after the last '.', or the
\* default when the name has no extension
ExtensionOr(name, default) ==
  IF \E i \in 1..Len(name) : name[i] = "." /\ i < Len(name)
  THEN SplitPop(name)
  ELSE default

\* C12 (as claimed): both objects are stored under one base, built from the
\* country code, the title (or "upload") and the identifier, followed by '.'
\* and the file's extension, or "jpg" (image) and "mp3" (audio) when the file
\* name has no extension.
C12_ExtensionOrDefault ==
  /\ uuids > 0 =>
       up.base = safeName(up.activeCountry.code \o <<"-">>
                            \o (IF up.title = <<>> THEN <<"u", "p", "l", "o", "a", "d">>
                                ELSE up.title)
                            \o <<"-">> \o up.id)
  /\ Len(calls) >= 2 =>
       up.base \o <<".">> \o ExtensionOr(up.imageFile.name, <<"j", "p", "g">>) \in images
  /\ Len(calls) >= 3 =>
       up.base \o <<".">> \o ExtensionOr(up.audioFile.name, <<"m", "p", "3">>) \in audio

-----------------------------------------------------------------------------
(* The upload pipeline with the user clicking countries and closing and      *)
(* opening the form meanwhile, every call in flight returning eventually     *)

NextBusy ==
  \/ NextUpload
  \/ \E geo \in Geographies : ClickCountry(geo)
  \/ OpenForm
  \/ CloseForm

\* the call of handleUpload that is in flight returns (at most one is)
CallReturns == ImgReturn \/ AudReturn \/ InsReturn \/ RefReturn

\* every call of handleUpload that is in flight eventually returns
FairSpec == InitFilled /\ [][NextBusy]_vars /\ WF_vars(CallReturns)

\* C16: whenever the uploading flag is set it is eventually reset, provided
\* every call that is in flight eventually returns.
C16_UploadingEventuallyReset == uploading ~> ~uploading

\* a submit whose refresh select failed has ended with the flag reset, after
\* another country was clicked while it was in flight
C16_Witness ==
  /\ EndedOk
  /\ ~uploading
  /\ entries = <<>>
  /\ ~showForm
  /\ activeCountry # up.activeCountry

====
